---- MODULE Spec2Model ----
(***************************************************************************)
(* A model of the OCR pipeline of backend/services/ocr_engine.py: the      *)
(* three recognizer adapters, the ensemble combiner, the field detector,  *)
(* the confidence scorer and OCREngine.process_document; and of the job    *)
(* registry of backend/api/documents.py: upload_document, the background  *)
(* task process_uploaded_document and the requests that read the registry.*)
(*                                                                         *)
(* Numbers.  A confidence is an integer number of thousandths (Scale is   *)
(* 1.0).  A quotient the code computes in floating point (a mean, an IoU) *)
(* is kept exact: a mean as the pair [num, den], an IoU test as a         *)
(* comparison of cross products.                                          *)
(* Text.  A string is a sequence of one-character strings, so that        *)
(* lower(), strip() and the substring test are computed, not assumed.     *)
(***************************************************************************)
EXTENDS Integers, Sequences, FiniteSets, TLC

VARIABLES
    pc,                 \* position of the run
    pages,              \* pages of the document still to be processed
    engine_out,         \* what each underlying engine did on the current page
    tesseract_results,  \* locals of process_document / arguments of the combiner
    easyocr_results,
    paddleocr_results,
    combined_results,   \* the combiner's return value for the current page
    all_text_blocks,
    fields,
    confidence_scores,
    reported,           \* detections the engines have reported so far
    overlap_box1,       \* arguments of _boxes_overlap
    overlap_box2,
    overlap,            \* what _boxes_overlap computed and returned
    processing_jobs,    \* api/documents.py: job_id -> job record
    background_tasks,   \* the (job_id, file_path) tasks add_task has scheduled
    task_log,           \* per job: its (status, progress) after each write, and by whom
    uploads,            \* upload requests waiting in `await file.read()`
    response            \* what the last request was answered with

ocrVars == <<pages, engine_out, tesseract_results, easyocr_results,
             paddleocr_results, combined_results, all_text_blocks, fields,
             confidence_scores, reported>>
overlapVars == <<overlap_box1, overlap_box2, overlap>>
jobVars == <<processing_jobs, background_tasks, task_log, uploads, response>>

vars == <<pc, ocrVars, overlapVars, jobVars>>

\* The variables of a part of the program that a specification leaves out.
OcrIdle ==
    /\ pages = 0
    /\ engine_out = <<>>
    /\ tesseract_results = <<>>
    /\ easyocr_results = <<>>
    /\ paddleocr_results = <<>>
    /\ combined_results = <<>>
    /\ all_text_blocks = <<>>
    /\ fields = <<>>
    /\ confidence_scores = <<>>
    /\ reported = 0

OverlapIdle ==
    /\ overlap_box1 = <<>>
    /\ overlap_box2 = <<>>
    /\ overlap = <<>>

JobsIdle ==
    /\ processing_jobs = <<>>
    /\ background_tasks = <<>>
    /\ task_log = <<>>
    /\ uploads = 0
    /\ response = <<>>

(***************************************************************************)
(* Bounds of the model.                                                    *)
(***************************************************************************)
MaxRegions == 3     \* regions handed to the combiner in SpecCombine
MaxFieldBlocks == 2 \* blocks handed to the field detector in SpecFields
MaxScoreBlocks == 3 \* blocks handed to the scorer in SpecScores
MaxPages == 2       \* pages of a document in Spec
MaxDetections == 2  \* detections the engines report over one document in Spec
MaxOrigin == 1      \* largest x and y of a box in SpecOverlap
MaxSide == 2        \* largest width and height of a box in SpecOverlap
MaxJobs == 2        \* jobs the registry holds in SpecJobs
MaxInFlight == 2    \* uploads waiting for their file content at one time

\* One unit of confidence: Scale thousandths are the float 1.0.
Scale == 1000

\* threshold: float = 0.5, as the fraction ThresholdNum / ThresholdDen
ThresholdNum == 1
ThresholdDen == 2

(***************************************************************************)
(* Generic helpers.                                                        *)
(***************************************************************************)
Max2(a, b) == IF a >= b THEN a ELSE b
Min2(a, b) == IF a <= b THEN a ELSE b

Range(s) == { s[k] : k \in 1..Len(s) }

\* All sequences over S of length at most n.
SeqsUpTo(S, n) == UNION { [1..k -> S] : k \in 0..n }

(***************************************************************************)
(* OCRType, OCRResult.                                                     *)
(***************************************************************************)
TESSERACT == "tesseract"
EASYOCR   == "easyocr"
PADDLEOCR == "paddleocr"

OCRResult(text, bbox, confidence, engine) ==
    [text |-> text, bbox |-> bbox, confidence |-> confidence, engine |-> engine]

(***************************************************************************)
(* OCREngine._boxes_overlap: the intersection rectangle, then              *)
(* intersection / union >= threshold.                                      *)
(***************************************************************************)
IntersectionArea(box1, box2) ==
    LET left   == Max2(box1[1], box2[1])
        top    == Max2(box1[2], box2[2])
        right  == Min2(box1[1] + box1[3], box2[1] + box2[3])
        bottom == Min2(box1[2] + box1[4], box2[2] + box2[4])
    IN  IF left < right /\ top < bottom
        THEN (right - left) * (bottom - top)
        ELSE 0

\* A variant that takes box1's area for both areas.
UnionAreaBox1Twice(box1, box2) ==
    box1[3] * box1[4] + box1[3] * box1[4] - IntersectionArea(box1, box2)

\* A variant that does not subtract the intersection.
UnionAreaNoSubtract(box1, box2) ==
    box1[3] * box1[4] + box2[3] * box2[4]

UnionArea(box1, box2) ==
    box1[3] * box1[4] + box2[3] * box2[4] - IntersectionArea(box1, box2)

\* A variant with `>` for `>=`: a pair at exactly the threshold is missed.
BoxesOverlapStrict(box1, box2) ==
    /\ IntersectionArea(box1, box2) > 0
    /\ UnionArea(box1, box2) > 0
    /\ IntersectionArea(box1, box2) * ThresholdDen
           > ThresholdNum * UnionArea(box1, box2)

BoxesOverlap(box1, box2) ==
    /\ IntersectionArea(box1, box2) > 0
    /\ UnionArea(box1, box2) > 0
    /\ IntersectionArea(box1, box2) * ThresholdDen
           >= ThresholdNum * UnionArea(box1, box2)

\* overlap_ratio = intersection_area / union_area, as an exact fraction; 0
\* when the function returns before it computes the ratio.
OverlapRatio(box1, box2) ==
    IF IntersectionArea(box1, box2) > 0 /\ UnionArea(box1, box2) > 0
    THEN [num |-> IntersectionArea(box1, box2), den |-> UnionArea(box1, box2)]
    ELSE [num |-> 0, den |-> 1]

(***************************************************************************)
(* OCREngine._combine_ocr_results.                                         *)
(***************************************************************************)
AllResults(t, e, p) == t \o e \o p

\* A variant of the inner loop that tests j against every member the cluster
\* has so far (a transitive closure along the scan), not against the seed.
RECURSIVE ScanFromAnyMember(_, _, _, _, _)
ScanFromAnyMember(all, i, j, overlapping, processed) ==
    IF j > Len(all)
    THEN [overlapping |-> overlapping, processed |-> processed]
    ELSE IF j \in processed
         THEN ScanFromAnyMember(all, i, j + 1, overlapping, processed)
         ELSE IF \E m \in 1..Len(overlapping) :
                    BoxesOverlap(all[overlapping[m]].bbox, all[j].bbox)
              THEN ScanFromAnyMember(all, i, j + 1, Append(overlapping, j),
                                     processed \cup {j})
              ELSE ScanFromAnyMember(all, i, j + 1, overlapping, processed)

\* A variant of the inner loop that does not mark the regions it claims.
RECURSIVE ScanFromNoMark(_, _, _, _, _)
ScanFromNoMark(all, i, j, overlapping, processed) ==
    IF j > Len(all)
    THEN [overlapping |-> overlapping, processed |-> processed]
    ELSE IF j \in processed
         THEN ScanFromNoMark(all, i, j + 1, overlapping, processed)
         ELSE IF BoxesOverlap(all[i].bbox, all[j].bbox)
              THEN ScanFromNoMark(all, i, j + 1, Append(overlapping, j), processed)
              ELSE ScanFromNoMark(all, i, j + 1, overlapping, processed)

\* The inner loop for the seed i: j runs over i+1..Len(all) in order and
\* joins when it is not yet processed and its box overlaps the SEED's box.
RECURSIVE ScanFrom(_, _, _, _, _)
ScanFrom(all, i, j, overlapping, processed) ==
    IF j > Len(all)
    THEN [overlapping |-> overlapping, processed |-> processed]
    ELSE IF j \in processed
         THEN ScanFrom(all, i, j + 1, overlapping, processed)
         ELSE IF BoxesOverlap(all[i].bbox, all[j].bbox)
              THEN ScanFrom(all, i, j + 1, Append(overlapping, j),
                            processed \cup {j})
              ELSE ScanFrom(all, i, j + 1, overlapping, processed)

\* The outer loop: the clusters, each the sequence of the indices (into
\* all_results) of its `overlapping` list, seed first.
RECURSIVE ClustersFrom(_, _, _, _)
ClustersFrom(all, i, processed, clusters) ==
    IF i > Len(all)
    THEN clusters
    ELSE IF i \in processed
         THEN ClustersFrom(all, i + 1, processed, clusters)
         ELSE LET s == ScanFrom(all, i, i + 1, <<i>>, processed \cup {i})
              IN  ClustersFrom(all, i + 1, s.processed,
                               Append(clusters, s.overlapping))

Clusters(all) == ClustersFrom(all, 1, {}, <<>>)

\* max(overlapping, key=lambda r: r.confidence): Python's max keeps the
\* first of the maximal items.
RECURSIVE MaxFrom(_, _, _, _)
MaxFrom(all, cluster, k, best) ==
    IF k > Len(cluster)
    THEN best
    ELSE IF all[cluster[k]].confidence > all[best].confidence
         THEN MaxFrom(all, cluster, k + 1, cluster[k])
         ELSE MaxFrom(all, cluster, k + 1, best)

\* A variant that keeps the LAST of the maximal items.
BestOfLast(all, cluster) ==
    LET RECURSIVE F(_, _)
        F(k, best) ==
            IF k > Len(cluster) THEN best
            ELSE IF all[cluster[k]].confidence >= all[best].confidence
                 THEN F(k + 1, cluster[k])
                 ELSE F(k + 1, best)
    IN  F(2, cluster[1])

BestOf(all, cluster) ==
    IF Len(cluster) = 1
    THEN cluster[1]
    ELSE MaxFrom(all, cluster, 2, cluster[1])

\* A variant that appends a representative only for a cluster of two or
\* more (the len(overlapping) == 1 branch lost).
GroupedIndicesNoSingles(all) ==
    LET cs == SelectSeq(Clusters(all), LAMBDA c : Len(c) > 1)
    IN  [k \in 1..Len(cs) |-> BestOf(all, cs[k])]

\* Index (into all_results) of each cluster's representative.
GroupedIndices(all) ==
    LET cs == Clusters(all) IN [k \in 1..Len(cs) |-> BestOf(all, cs[k])]

CombineOcrResults(t, e, p) ==
    LET all == AllResults(t, e, p)
        g   == GroupedIndices(all)
    IN  [k \in 1..Len(g) |-> all[g[k]]]

(***************************************************************************)
(* Strings: str.lower(), str.strip(), and `keyword in text`.               *)
(***************************************************************************)
UpperCase == <<"A", "B", "C", "D", "E", "F", "G", "H", "I", "J", "K", "L", "M",
               "N", "O", "P", "Q", "R", "S", "T", "U", "V", "W", "X", "Y", "Z">>
LowerCase == <<"a", "b", "c", "d", "e", "f", "g", "h", "i", "j", "k", "l", "m",
               "n", "o", "p", "q", "r", "s", "t", "u", "v", "w", "x", "y", "z">>
Whitespace == {" ", "\t", "\n", "\r"}

LowerChar(c) ==
    IF \E k \in 1..Len(UpperCase) : UpperCase[k] = c
    THEN LowerCase[CHOOSE k \in 1..Len(UpperCase) : UpperCase[k] = c]
    ELSE c

StrLower(s) == [k \in 1..Len(s) |-> LowerChar(s[k])]

RECURSIVE LStrip(_)
LStrip(s) ==
    IF s # <<>> /\ Head(s) \in Whitespace THEN LStrip(Tail(s)) ELSE s

RECURSIVE RStrip(_)
RStrip(s) ==
    IF s # <<>> /\ s[Len(s)] \in Whitespace
    THEN RStrip(SubSeq(s, 1, Len(s) - 1))
    ELSE s

StrStrip(s) == RStrip(LStrip(s))

\* keyword in text
StrContains(text, keyword) ==
    \E k \in 0..(Len(text) - Len(keyword)) :
        SubSeq(text, k + 1, k + Len(keyword)) = keyword

\* Texts an engine may report.
TxtAccountEmailNumber == <<"a", "c", "c", "o", "u", "n", "t", " ", "e", "m", "a", "i", "l", " ", "n", "u", "m", "b", "e", "r">>
TxtFullName == <<" ", "F", "u", "l", "l", " ", "N", "a", "m", "e", " ">>
TxtEMail == <<"E", "-", "M", "A", "I", "L">>
TxtTelephone == <<"T", "e", "l", "e", "p", "h", "o", "n", "e">>
TxtDateOfBirth == <<"D", "a", "t", "e", " ", "o", "f", " ", "B", "i", "r", "t", "h">>
TxtCity == <<"C", "i", "t", "y">>
TxtIban == <<"I", "B", "A", "N">>
TxtTotal == <<"T", "o", "t", "a", "l">>
TxtBlank == <<" ", " ">>
TxtNameAndEmail == <<"N", "a", "m", "e", " ", "a", "n", "d", " ", "E", "m", "a", "i", "l">>
TxtAccountNumber == <<"A", "c", "c", "o", "u", "n", "t", " ", "N", "u", "m", "b", "e", "r">>
TxtMobileState == <<"M", "o", "b", "i", "l", "e", " ", "S", "t", "a", "t", "e">>
TxtStatementDate == <<"S", "t", "a", "t", "e", "m", "e", "n", "t", " ", "d", "a", "t", "e">>
TxtJohnName == <<"J", "o", "h", "n", " ", "N", "a", "m", "e">>
TxtEmpty == <<>>

(***************************************************************************)
(* OCREngine._detect_form_fields: the if / elif ladder, top to bottom.     *)
(***************************************************************************)
FieldRules == <<
    [name |-> "name",
     keywords |-> << <<"n", "a", "m", "e">>,
                   <<"f", "i", "r", "s", "t", " ", "n", "a", "m", "e">>,
                   <<"l", "a", "s", "t", " ", "n", "a", "m", "e">>,
                   <<"s", "u", "r", "n", "a", "m", "e">> >>],
    [name |-> "email",
     keywords |-> << <<"e", "m", "a", "i", "l">>,
                   <<"e", "-", "m", "a", "i", "l">>,
                   <<"m", "a", "i", "l">> >>],
    [name |-> "phone",
     keywords |-> << <<"p", "h", "o", "n", "e">>,
                   <<"t", "e", "l">>,
                   <<"m", "o", "b", "i", "l", "e">>,
                   <<"c", "e", "l", "l">> >>],
    [name |-> "date",
     keywords |-> << <<"d", "a", "t", "e">>,
                   <<"d", "o", "b">>,
                   <<"b", "i", "r", "t", "h">> >>],
    [name |-> "address",
     keywords |-> << <<"a", "d", "d", "r", "e", "s", "s">>,
                   <<"s", "t", "r", "e", "e", "t">>,
                   <<"c", "i", "t", "y">>,
                   <<"s", "t", "a", "t", "e">>,
                   <<"z", "i", "p">>,
                   <<"p", "o", "s", "t", "a", "l">> >>],
    [name |-> "account_number",
     keywords |-> << <<"a", "c", "c", "o", "u", "n", "t">>,
                   <<"i", "b", "a", "n">>,
                   <<"n", "u", "m", "b", "e", "r">> >>]
>>


Field(name, bbox, field_type, value, confidence) ==
    [name |-> name, bbox |-> bbox, field_type |-> field_type, value |-> value,
     confidence |-> confidence]

RuleMatches(rule, text_lower) ==
    \E k \in 1..Len(rule.keywords) : StrContains(text_lower, rule.keywords[k])

\* The index of the branch of the ladder that is taken; 0 when none is.
RECURSIVE FirstRuleFrom(_, _, _)
FirstRuleFrom(rules, r, text_lower) ==
    IF r > Len(rules) THEN 0
    ELSE IF RuleMatches(rules[r], text_lower) THEN r
         ELSE FirstRuleFrom(rules, r + 1, text_lower)

\* A variant with `if` for `elif`: one field for every rule that matches.
BlockFieldsEveryRule(block) ==
    LET text_lower == StrStrip(StrLower(block.text))
        hits == SelectSeq([r \in 1..Len(FieldRules) |-> r],
                          LAMBDA r : RuleMatches(FieldRules[r], text_lower))
    IN  [k \in 1..Len(hits) |->
            Field(FieldRules[hits[k]].name, block.bbox, "text", <<>>,
                  block.confidence)]

\* The fields one block appends: one or none.
BlockFields(block) ==
    LET text_lower == StrStrip(StrLower(block.text))
        r          == FirstRuleFrom(FieldRules, 1, text_lower)
    IN  IF r = 0 THEN <<>>
        ELSE << Field(FieldRules[r].name, block.bbox, "text", <<>>,
                      block.confidence) >>

RECURSIVE DetectFrom(_, _, _)
DetectFrom(text_blocks, k, acc) ==
    IF k > Len(text_blocks) THEN acc
    ELSE DetectFrom(text_blocks, k + 1, acc \o BlockFields(text_blocks[k]))

DetectFormFields(text_blocks) == DetectFrom(text_blocks, 1, <<>>)

(***************************************************************************)
(* OCREngine._calculate_confidence_scores.  A value of the dict is the     *)
(* exact fraction num / den.                                               *)
(***************************************************************************)
Frac(n, d) == [num |-> n, den |-> d]

RECURSIVE SumConf(_)
SumConf(confidences) ==
    IF confidences = <<>> THEN 0
    ELSE Head(confidences) + SumConf(Tail(confidences))

RECURSIVE MinConf(_)
MinConf(confidences) ==
    IF Len(confidences) = 1 THEN confidences[1]
    ELSE Min2(Head(confidences), MinConf(Tail(confidences)))

RECURSIVE MaxConf(_)
MaxConf(confidences) ==
    IF Len(confidences) = 1 THEN confidences[1]
    ELSE Max2(Head(confidences), MaxConf(Tail(confidences)))

\* A variant with the two extremes exchanged.
CalculateConfidenceScoresSwapped(text_blocks, flds) ==
    IF text_blocks = <<>>
    THEN [overall |-> Frac(0, 1), average_per_block |-> Frac(0, 1),
          min |-> Frac(0, 1), max |-> Frac(0, 1)]
    ELSE LET confidences == [k \in 1..Len(text_blocks) |->
                                 text_blocks[k].confidence]
         IN  [overall           |-> Frac(SumConf(confidences), Len(confidences) * Scale),
              average_per_block |-> Frac(SumConf(confidences), Len(confidences) * Scale),
              min               |-> Frac(MaxConf(confidences), Scale),
              max               |-> Frac(MinConf(confidences), Scale),
              total_blocks      |-> Frac(Len(text_blocks), 1)]

\* A variant that counts the fields, its second parameter, for total_blocks.
CalculateConfidenceScoresCountFields(text_blocks, flds) ==
    IF text_blocks = <<>>
    THEN [overall |-> Frac(0, 1), average_per_block |-> Frac(0, 1),
          min |-> Frac(0, 1), max |-> Frac(0, 1)]
    ELSE LET confidences == [k \in 1..Len(text_blocks) |->
                                 text_blocks[k].confidence]
         IN  [overall           |-> Frac(SumConf(confidences), Len(confidences) * Scale),
              average_per_block |-> Frac(SumConf(confidences), Len(confidences) * Scale),
              min               |-> Frac(MinConf(confidences), Scale),
              max               |-> Frac(MaxConf(confidences), Scale),
              total_blocks      |-> Frac(Len(flds), 1)]

\* A variant whose empty case also reports total_blocks.
CalculateConfidenceScoresZeroCount(text_blocks, flds) ==
    IF text_blocks = <<>>
    THEN [overall |-> Frac(0, 1), average_per_block |-> Frac(0, 1),
          min |-> Frac(0, 1), max |-> Frac(0, 1), total_blocks |-> Frac(0, 1)]
    ELSE LET confidences == [k \in 1..Len(text_blocks) |->
                                 text_blocks[k].confidence]
         IN  [overall           |-> Frac(SumConf(confidences), Len(confidences) * Scale),
              average_per_block |-> Frac(SumConf(confidences), Len(confidences) * Scale),
              min               |-> Frac(MinConf(confidences), Scale),
              max               |-> Frac(MaxConf(confidences), Scale),
              total_blocks      |-> Frac(Len(text_blocks), 1)]

CalculateConfidenceScores(text_blocks, flds) ==
    IF text_blocks = <<>>
    THEN [overall |-> Frac(0, 1), average_per_block |-> Frac(0, 1),
          min |-> Frac(0, 1), max |-> Frac(0, 1)]
    ELSE LET confidences == [k \in 1..Len(text_blocks) |->
                                 text_blocks[k].confidence]
         IN  [overall           |-> Frac(SumConf(confidences), Len(confidences) * Scale),
              average_per_block |-> Frac(SumConf(confidences), Len(confidences) * Scale),
              min               |-> Frac(MinConf(confidences), Scale),
              max               |-> Frac(MaxConf(confidences), Scale),
              total_blocks      |-> Frac(Len(text_blocks), 1)]

(***************************************************************************)
(* Values of the variables a specification does not use.                   *)
(***************************************************************************)
NoScores == <<>>
NoEngineOut == <<>>

(***************************************************************************)
(* SpecCombine: _combine_ocr_results on every input of at most MaxRegions  *)
(* regions, split in every way between the three engines.                  *)
(***************************************************************************)
\* A-B and B-C overlap (IoU 3/5), A-C do not (IoU 1/3); H is the left half
\* of A (IoU exactly 1/2); D touches C along an edge and meets no other box.
BoxA == <<0, 0, 4, 1>>
BoxB == <<1, 0, 4, 1>>
BoxC == <<2, 0, 4, 1>>
BoxH == <<0, 0, 2, 1>>
BoxD == <<6, 0, 4, 1>>
CombineBoxes == {BoxA, BoxB, BoxC, BoxH, BoxD}
CombineConfs == {500, 900}

Tagged(shapes, from, to, engine) ==
    [k \in 1..(to - from + 1) |->
        OCRResult(TxtJohnName, shapes[from + k - 1][1], shapes[from + k - 1][2],
                  engine)]

InitCombine ==
    /\ pc = "combine"
    /\ \E shapes \in SeqsUpTo(CombineBoxes \X CombineConfs, MaxRegions) :
         \E a \in 0..Len(shapes) :
           \E b \in a..Len(shapes) :
              /\ tesseract_results = Tagged(shapes, 1, a, TESSERACT)
              /\ easyocr_results   = Tagged(shapes, a + 1, b, EASYOCR)
              /\ paddleocr_results = Tagged(shapes, b + 1, Len(shapes), PADDLEOCR)
    /\ pages = 0
    /\ engine_out = NoEngineOut
    /\ combined_results = <<>>
    /\ all_text_blocks = <<>>
    /\ fields = <<>>
    /\ confidence_scores = NoScores
    /\ reported = 0
    /\ OverlapIdle
    /\ JobsIdle

Combine ==
    /\ pc = "combine"
    /\ combined_results' = CombineOcrResults(tesseract_results, easyocr_results,
                                             paddleocr_results)
    /\ pc' = "combined"
    /\ UNCHANGED <<pages, engine_out, tesseract_results, easyocr_results,
                   paddleocr_results, all_text_blocks, fields, confidence_scores,
                   reported>>
    /\ UNCHANGED <<overlapVars, jobVars>>

NextCombine == Combine

SpecCombine == InitCombine /\ [][NextCombine]_vars

\* The combiner's input and its clusters in the current state.
CurAll == AllResults(tesseract_results, easyocr_results, paddleocr_results)
CurClusters == Clusters(CurAll)

\* IoU(box1, box2) >= 1/2, from the definition of IoU: intersection over
\* union, 0 when the rectangles do not intersect.
IoUAtLeastHalf(box1, box2) ==
    LET iw == Min2(box1[1] + box1[3], box2[1] + box2[3]) - Max2(box1[1], box2[1])
        ih == Min2(box1[2] + box1[4], box2[2] + box2[4]) - Max2(box1[2], box2[2])
        inter == IF iw > 0 /\ ih > 0 THEN iw * ih ELSE 0
        union == box1[3] * box1[4] + box2[3] * box2[4] - inter
    IN  inter > 0 /\ 2 * inter >= union

ClaimedBefore(cs, k) == UNION { Range(cs[l]) : l \in 1..(k - 1) }

\* C2: one greedy pass against the seed only: the seed of cluster k is the
\* first index no earlier cluster claimed, and j is a member exactly when
\* j is the seed, or j comes after the seed, no earlier cluster claimed j and
\* IoU(seed, j) >= 1/2; for a chain A, B, C the clusters are {A, B}, {C}.
C2_GreedySeedOnly ==
    pc = "combined" =>
        LET cs == CurClusters
            n  == Len(CurAll)
        IN  /\ \A k \in 1..Len(cs) :
                 LET seed == cs[k][1]
                     free == (1..n) \ ClaimedBefore(cs, k)
                 IN  /\ seed \in free
                     /\ \A j \in free : seed <= j
                     /\ Range(cs[k]) =
                          {seed} \cup
                          { j \in free : j > seed /\
                              IoUAtLeastHalf(CurAll[seed].bbox, CurAll[j].bbox) }
            /\ UNION { Range(cs[k]) : k \in 1..Len(cs) } = 1..n
            /\ ( /\ n = 3
                 /\ IoUAtLeastHalf(CurAll[1].bbox, CurAll[2].bbox)
                 /\ IoUAtLeastHalf(CurAll[2].bbox, CurAll[3].bbox)
                 /\ ~IoUAtLeastHalf(CurAll[1].bbox, CurAll[3].bbox) )
               => cs = << <<1, 2>>, <<3>> >>

\* The chain: A-B and B-C overlap, A-C do not, and C is left to a cluster
\* of its own.
C2_Witness ==
    /\ pc = "combined"
    /\ Len(CurAll) = 3
    /\ IoUAtLeastHalf(CurAll[1].bbox, CurAll[2].bbox)
    /\ IoUAtLeastHalf(CurAll[2].bbox, CurAll[3].bbox)
    /\ ~IoUAtLeastHalf(CurAll[1].bbox, CurAll[3].bbox)
    /\ CurClusters = << <<1, 2>>, <<3>> >>

\* C3 as stated: no two distinct output regions overlap with IoU >= 1/2.
C3_NoOutputOverlap ==
    pc = "combined" =>
        \A k, l \in 1..Len(combined_results) :
            k # l => ~IoUAtLeastHalf(combined_results[k].bbox,
                                     combined_results[l].bbox)

\* C3 as amended: the seeds of two distinct clusters never overlap with
\* IoU >= 1/2, so two output regions overlap only if one of them is a
\* representative that is not the seed of its cluster.
C3_SeedsDoNotOverlap ==
    pc = "combined" =>
        LET cs == CurClusters
            g  == GroupedIndices(CurAll)
        IN  /\ \A k, l \in 1..Len(cs) :
                 k # l => ~IoUAtLeastHalf(CurAll[cs[k][1]].bbox,
                                          CurAll[cs[l][1]].bbox)
            /\ \A k, l \in 1..Len(combined_results) :
                 (k # l /\ IoUAtLeastHalf(combined_results[k].bbox,
                                          combined_results[l].bbox))
                 => (g[k] # cs[k][1] \/ g[l] # cs[l][1])

\* Two output regions that overlap: one is a non-seed representative.
C3_Witness ==
    /\ pc = "combined"
    /\ \E k, l \in 1..Len(combined_results) :
         /\ k # l
         /\ IoUAtLeastHalf(combined_results[k].bbox, combined_results[l].bbox)
         /\ GroupedIndices(CurAll)[k] # CurClusters[k][1]

\* The connected components of the graph on 1..n whose edges are the pairs
\* with IoU >= 1/2.
RECURSIVE Reach(_, _)
Reach(all, S) ==
    LET T == S \cup { j \in 1..Len(all) :
                        \E i \in S : IoUAtLeastHalf(all[i].bbox, all[j].bbox) }
    IN  IF T = S THEN S ELSE Reach(all, T)

Components(all) == { Reach(all, {i}) : i \in 1..Len(all) }

\* C4: the output count is at most the input count, at least the number
\* of connected components of the overlap graph, equal to the number of
\* clusters of the greedy pass, and zero only for the empty input.
C4_OutputCount ==
    pc = "combined" =>
        /\ Len(combined_results) <= Len(CurAll)
        /\ Len(combined_results) >= Cardinality(Components(CurAll))
        /\ Len(combined_results) = Len(CurClusters)
        /\ (Len(combined_results) = 0 <=> Len(CurAll) = 0)

\* Strictly between the two bounds: one component, two clusters, three
\* inputs.
C4_Witness ==
    /\ pc = "combined"
    /\ Len(CurAll) = 3
    /\ Cardinality(Components(CurAll)) = 1
    /\ Len(combined_results) = 2

(***************************************************************************)
(* SpecFields: _detect_form_fields on every list of at most MaxFieldBlocks *)
(* blocks.                                                                 *)
(***************************************************************************)
FieldTexts == {TxtAccountEmailNumber, TxtFullName, TxtEMail, TxtTelephone,
               TxtDateOfBirth, TxtCity, TxtIban, TxtTotal, TxtBlank,
               TxtNameAndEmail, TxtAccountNumber, TxtMobileState,
               TxtStatementDate}
FieldShapes == {<<BoxA, 900>>, <<BoxD, 500>>}
FieldBlocks == { OCRResult(t, sh[1], sh[2], TESSERACT) :
                    t \in FieldTexts, sh \in FieldShapes }

InitFields ==
    /\ pc = "detect"
    /\ all_text_blocks \in SeqsUpTo(FieldBlocks, MaxFieldBlocks)
    /\ pages = 0
    /\ engine_out = NoEngineOut
    /\ tesseract_results = <<>>
    /\ easyocr_results = <<>>
    /\ paddleocr_results = <<>>
    /\ combined_results = <<>>
    /\ fields = <<>>
    /\ confidence_scores = NoScores
    /\ reported = 0
    /\ OverlapIdle
    /\ JobsIdle

DetectFields ==
    /\ pc = "detect"
    /\ fields' = DetectFormFields(all_text_blocks)
    /\ pc' = "detected"
    /\ UNCHANGED <<pages, engine_out, tesseract_results, easyocr_results,
                   paddleocr_results, combined_results, all_text_blocks,
                   confidence_scores, reported>>
    /\ UNCHANGED <<overlapVars, jobVars>>

NextFields == DetectFields

SpecFields == InitFields /\ [][NextFields]_vars

\* The ladder as the claim states it: the rule names, first to last.
C5_Ladder == <<"name", "email", "phone", "date", "address", "account_number">>

\* The keyword set of the rule called nm.
C5_Keywords(nm) ==
    LET r == CHOOSE r \in 1..Len(FieldRules) : FieldRules[r].name = nm
    IN  Range(FieldRules[r].keywords)

C5_Hits(block, nm) ==
    \E kw \in C5_Keywords(nm) :
        StrContains(StrStrip(StrLower(block.text)), kw)

\* The blocks that match some rule, in block order.
C5_Matching(blocks) ==
    SelectSeq([k \in 1..Len(blocks) |-> k],
              LAMBDA k : \E r \in 1..Len(C5_Ladder) : C5_Hits(blocks[k], C5_Ladder[r]))

\* C5: the blocks that match a rule give one Field each, in block order,
\* named after the first rule of the ladder that matches, with the block's
\* bbox and confidence, field_type "text" and an empty value; the other
\* blocks give none; "email" wins over "account_number".
C5_FirstRuleWins ==
    pc = "detected" =>
        LET idx == C5_Matching(all_text_blocks) IN
        /\ Len(fields) = Len(idx)
        /\ Len(fields) <= Len(all_text_blocks)
        /\ \A k \in 1..Len(idx) :
             LET block == all_text_blocks[idx[k]] IN
             /\ fields[k].bbox = block.bbox
             /\ fields[k].confidence = block.confidence
             /\ fields[k].field_type = "text"
             /\ fields[k].value = <<>>
             /\ \E r \in 1..Len(C5_Ladder) :
                   /\ fields[k].name = C5_Ladder[r]
                   /\ C5_Hits(block, C5_Ladder[r])
                   /\ \A q \in 1..(r - 1) : ~C5_Hits(block, C5_Ladder[q])
             /\ ( /\ StrContains(StrLower(block.text), <<"e", "m", "a", "i", "l">>)
                  /\ C5_Hits(block, "account_number")
                  /\ ~C5_Hits(block, "name") )
                => fields[k].name = "email"

\* "account email number" followed by a block that matches no rule: one
\* field, named email.
C5_Witness ==
    /\ pc = "detected"
    /\ Len(all_text_blocks) = 2
    /\ all_text_blocks[1].text = TxtAccountEmailNumber
    /\ C5_Hits(all_text_blocks[1], "account_number")
    /\ all_text_blocks[2].text = TxtTotal
    /\ Len(fields) = 1
    /\ fields[1].name = "email"

(***************************************************************************)
(* SpecScores: _calculate_confidence_scores on every list of at most       *)
(* MaxScoreBlocks blocks.                                                  *)
(***************************************************************************)
ScoreConfs == {0, 200, 400, 900, 1000}
ScoreBlocks == { OCRResult(TxtTotal, BoxA, c, TESSERACT) : c \in ScoreConfs }

InitScores ==
    /\ pc = "score"
    /\ all_text_blocks \in SeqsUpTo(ScoreBlocks, MaxScoreBlocks)
    /\ pages = 0
    /\ engine_out = NoEngineOut
    /\ tesseract_results = <<>>
    /\ easyocr_results = <<>>
    /\ paddleocr_results = <<>>
    /\ combined_results = <<>>
    /\ fields = <<>>
    /\ confidence_scores = NoScores
    /\ reported = 0
    /\ OverlapIdle
    /\ JobsIdle

CalculateScores ==
    /\ pc = "score"
    /\ confidence_scores' = CalculateConfidenceScores(all_text_blocks, fields)
    /\ pc' = "scored"
    /\ UNCHANGED <<pages, engine_out, tesseract_results, easyocr_results,
                   paddleocr_results, combined_results, all_text_blocks, fields,
                   reported>>
    /\ UNCHANGED <<overlapVars, jobVars>>

NextScores == CalculateScores

SpecScores == InitScores /\ [][NextScores]_vars

\* Equality and order of two fractions with positive denominators.
FracEq(a, b) == a.num * b.den = b.num * a.den
FracLe(a, b) == a.num * b.den <= b.num * a.den

\* The confidence of a block as a fraction.
ConfOf(block) == [num |-> block.confidence, den |-> Scale]

RECURSIVE C6_Total(_)
C6_Total(blocks) ==
    IF blocks = <<>> THEN 0
    ELSE blocks[1].confidence + C6_Total(Tail(blocks))

\* C6: for the empty list exactly the keys overall, average_per_block, min
\* and max, all 0.0; otherwise overall is the mean of the confidences,
\* average_per_block equals it, min and max are the smallest and the
\* largest confidence, and total_blocks is the number of blocks.
C6_Scores ==
    pc = "scored" =>
        LET n == Len(all_text_blocks)
            cs == confidence_scores
        IN  IF n = 0
            THEN /\ DOMAIN cs = {"overall", "average_per_block", "min", "max"}
                 /\ \A key \in DOMAIN cs : cs[key].num = 0 /\ cs[key].den > 0
            ELSE /\ DOMAIN cs = {"overall", "average_per_block", "min", "max",
                                 "total_blocks"}
                 /\ \A key \in DOMAIN cs : cs[key].den > 0
                 /\ cs.overall.num * n * Scale
                        = cs.overall.den * C6_Total(all_text_blocks)
                 /\ FracEq(cs.average_per_block, cs.overall)
                 /\ \E k \in 1..n : FracEq(cs.min, ConfOf(all_text_blocks[k]))
                 /\ \A k \in 1..n : FracLe(cs.min, ConfOf(all_text_blocks[k]))
                 /\ \E k \in 1..n : FracEq(cs.max, ConfOf(all_text_blocks[k]))
                 /\ \A k \in 1..n : FracLe(ConfOf(all_text_blocks[k]), cs.max)
                 /\ cs.total_blocks.num = n * cs.total_blocks.den

\* Confidences 0.2, 0.4, 0.9: overall 0.5, min 0.2, max 0.9, 3 blocks.
C6_Witness ==
    /\ pc = "scored"
    /\ Len(all_text_blocks) = 3
    /\ all_text_blocks[1].confidence = 200
    /\ all_text_blocks[2].confidence = 400
    /\ all_text_blocks[3].confidence = 900
    /\ confidence_scores.overall.num * 2 = confidence_scores.overall.den
    /\ confidence_scores.min.num * 5 = confidence_scores.min.den
    /\ confidence_scores.total_blocks = Frac(3, 1)

(***************************************************************************)
(* The recognizer adapters.  What the underlying engine did on a page is   *)
(* an outcome: it raised, or it returned data.  An adapter returns         *)
(* [raised, results]: raised is whether an exception leaves process_image. *)
(***************************************************************************)
Raised == [raised |-> TRUE]
Returned(data) == [raised |-> FALSE, data |-> data]

RECURSIVE MinOf(_)
MinOf(xs) == IF Len(xs) = 1 THEN xs[1] ELSE Min2(xs[1], MinOf(Tail(xs)))

RECURSIVE MaxOf(_)
MaxOf(xs) == IF Len(xs) = 1 THEN xs[1] ELSE Max2(xs[1], MaxOf(Tail(xs)))

\* [[x1,y1],[x2,y2],[x3,y3],[x4,y4]] to (x, y, w, h)
PolygonToBBox(bbox) ==
    LET x_coords == [k \in 1..Len(bbox) |-> bbox[k][1]]
        y_coords == [k \in 1..Len(bbox) |-> bbox[k][2]]
        x == MinOf(x_coords)
        y == MinOf(y_coords)
    IN  <<x, y, MaxOf(x_coords) - x, MaxOf(y_coords) - y>>

\* TesseractEngine.process_image: one row of image_to_data.
TesseractRow(row) ==
    IF row.conf > 0
    THEN LET text == StrStrip(row.text)
         IN  IF text # <<>>
             THEN << OCRResult(text, <<row.left, row.top, row.width, row.height>>,
                               (row.conf * Scale) \div 100, TESSERACT) >>
             ELSE <<>>
    ELSE <<>>

RECURSIVE TesseractRows(_, _, _)
TesseractRows(data, i, results) ==
    IF i > Len(data) THEN results
    ELSE TesseractRows(data, i + 1, results \o TesseractRow(data[i]))

\* A variant with no try / except: the engine's error leaves process_image.
TesseractProcessImageNoExcept(out) ==
    IF out.raised
    THEN [raised |-> TRUE, results |-> <<>>]
    ELSE [raised |-> FALSE, results |-> TesseractRows(out.data, 1, <<>>)]

TesseractProcessImage(out) ==
    IF out.raised
    THEN [raised |-> FALSE, results |-> <<>>]
    ELSE [raised |-> FALSE, results |-> TesseractRows(out.data, 1, <<>>)]

\* EasyOCREngine.process_image: one (bbox, text, confidence) of readtext.
EasyOCRDetection(d) ==
    OCRResult(d[2], PolygonToBBox(d[1]), Min2(d[3], Scale), EASYOCR)

EasyOCRProcessImage(out) ==
    IF out.raised
    THEN [raised |-> FALSE, results |-> <<>>]
    ELSE [raised |-> FALSE,
          results |-> [k \in 1..Len(out.data) |-> EasyOCRDetection(out.data[k])]]

\* PaddleOCREngine.process_image.  The engine's result is None, [None] or
\* [detections]; a detection is [bbox, (text, confidence)].  A Python value
\* that may be None is PyNone or PyList(items).
PyNone == [none |-> TRUE]
PyList(items) == [none |-> FALSE, items |-> items]
Truthy(v) == ~v.none /\ v.items # <<>>

PaddleOCRDetection(detection) ==
    OCRResult(detection[2][1], PolygonToBBox(detection[1]),
              Min2(detection[2][2], Scale), PADDLEOCR)

PaddleOCRProcessImage(out) ==
    IF out.raised
    THEN [raised |-> FALSE, results |-> <<>>]
    ELSE LET result == out.data IN
         IF Truthy(result) /\ Truthy(result.items[1])
         THEN LET dets == result.items[1].items
              IN  [raised |-> FALSE,
                   results |-> [k \in 1..Len(dets) |-> PaddleOCRDetection(dets[k])]]
         ELSE [raised |-> FALSE, results |-> <<>>]

(***************************************************************************)
(* What the engines may report.                                            *)
(***************************************************************************)
TesseractRowsReported ==
    { [conf |-> 95, text |-> TxtFullName, left |-> 0, top |-> 0, width |-> 4, height |-> 1],
      [conf |-> 60, text |-> TxtBlank, left |-> 6, top |-> 0, width |-> 4, height |-> 1],
      [conf |-> -1, text |-> TxtEmpty, left |-> 0, top |-> 0, width |-> 8, height |-> 2],
      [conf |-> 100, text |-> TxtTotal, left |-> 6, top |-> 0, width |-> 4, height |-> 1] }

PolyB     == << <<1, 0>>, <<5, 0>>, <<5, 1>>, <<1, 1>> >>
PolySlant == << <<1, 0>>, <<4, 0>>, <<5, 1>>, <<2, 1>> >>
PolyD     == << <<6, 0>>, <<10, 0>>, <<10, 1>>, <<6, 1>> >>

EasyOCRDetectionsReported ==
    { <<PolyB, TxtJohnName, 900>>,
      <<PolyB, TxtBlank, 500>>,
      <<PolySlant, TxtEMail, 1200>>,
      <<PolyD, TxtTotal, -200>> }

PaddleOCRDetectionsReported ==
    { <<PolySlant, <<TxtCity, 800>> >>,
      <<PolyB, <<TxtEmpty, 700>> >>,
      <<PolyD, <<TxtIban, 1500>> >> }

\* The outcomes with at most `budget` detections, each with its count.
TesseractOutcomes(budget) ==
    {[out |-> Raised, n |-> 0]} \cup
    { [out |-> Returned(d), n |-> Len(d)] :
        d \in SeqsUpTo(TesseractRowsReported, budget) }

EasyOCROutcomes(budget) ==
    {[out |-> Raised, n |-> 0]} \cup
    { [out |-> Returned(d), n |-> Len(d)] :
        d \in SeqsUpTo(EasyOCRDetectionsReported, budget) }

PaddleOCROutcomes(budget) ==
    { [out |-> Raised, n |-> 0],
      [out |-> Returned(PyNone), n |-> 0],
      [out |-> Returned(PyList(<<PyNone>>)), n |-> 0] } \cup
    { [out |-> Returned(PyList(<<PyList(d)>>)), n |-> Len(d)] :
        d \in SeqsUpTo(PaddleOCRDetectionsReported, budget) }

(***************************************************************************)
(* Spec: OCREngine.process_document, page by page.                         *)
(***************************************************************************)
Init ==
    /\ pc = "load"
    /\ pages = 0
    /\ engine_out = NoEngineOut
    /\ tesseract_results = <<>>
    /\ easyocr_results = <<>>
    /\ paddleocr_results = <<>>
    /\ combined_results = <<>>
    /\ all_text_blocks = <<>>
    /\ fields = <<>>
    /\ confidence_scores = NoScores
    /\ reported = 0
    /\ OverlapIdle
    /\ JobsIdle

\* pages = self._load_document(document_path)
LoadDocument ==
    /\ pc = "load"
    /\ \E n \in 0..MaxPages :
         /\ pages' = n
         /\ pc' = IF n = 0 THEN "finish" ELSE "tesseract"
    /\ UNCHANGED <<engine_out, tesseract_results, easyocr_results,
                   paddleocr_results, combined_results, all_text_blocks, fields,
                   confidence_scores, reported>>
    /\ UNCHANGED <<overlapVars, jobVars>>

\* _load_document raises (an image that cannot be read): nothing catches it.
LoadDocumentRaises ==
    /\ pc = "load"
    /\ pc' = "raised"
    /\ UNCHANGED <<pages, engine_out, tesseract_results, easyocr_results,
                   paddleocr_results, combined_results, all_text_blocks, fields,
                   confidence_scores, reported>>
    /\ UNCHANGED <<overlapVars, jobVars>>

RunTesseract ==
    /\ pc = "tesseract"
    /\ \E o \in TesseractOutcomes(MaxDetections - reported) :
         LET r == TesseractProcessImage(o.out) IN
         /\ engine_out' = [tesseract |-> o.out]
         /\ reported' = reported + o.n
         /\ IF r.raised
            THEN pc' = "raised" /\ UNCHANGED tesseract_results
            ELSE pc' = "easyocr" /\ tesseract_results' = r.results
    /\ UNCHANGED <<pages, easyocr_results, paddleocr_results, combined_results,
                   all_text_blocks, fields, confidence_scores>>
    /\ UNCHANGED <<overlapVars, jobVars>>

RunEasyOCR ==
    /\ pc = "easyocr"
    /\ \E o \in EasyOCROutcomes(MaxDetections - reported) :
         LET r == EasyOCRProcessImage(o.out) IN
         /\ engine_out' = [tesseract |-> engine_out.tesseract, easyocr |-> o.out]
         /\ reported' = reported + o.n
         /\ IF r.raised
            THEN pc' = "raised" /\ UNCHANGED easyocr_results
            ELSE pc' = "paddleocr" /\ easyocr_results' = r.results
    /\ UNCHANGED <<pages, tesseract_results, paddleocr_results, combined_results,
                   all_text_blocks, fields, confidence_scores>>
    /\ UNCHANGED <<overlapVars, jobVars>>

RunPaddleOCR ==
    /\ pc = "paddleocr"
    /\ \E o \in PaddleOCROutcomes(MaxDetections - reported) :
         LET r == PaddleOCRProcessImage(o.out) IN
         /\ engine_out' = [tesseract |-> engine_out.tesseract,
                           easyocr |-> engine_out.easyocr, paddleocr |-> o.out]
         /\ reported' = reported + o.n
         /\ IF r.raised
            THEN pc' = "raised" /\ UNCHANGED paddleocr_results
            ELSE pc' = "combine_page" /\ paddleocr_results' = r.results
    /\ UNCHANGED <<pages, tesseract_results, easyocr_results, combined_results,
                   all_text_blocks, fields, confidence_scores>>
    /\ UNCHANGED <<overlapVars, jobVars>>

\* combined_results = self._combine_ocr_results(...);
\* all_text_blocks.extend(combined_results); then the next page, if any.
CombinePage ==
    /\ pc = "combine_page"
    /\ combined_results' = CombineOcrResults(tesseract_results, easyocr_results,
                                             paddleocr_results)
    /\ all_text_blocks' = all_text_blocks \o combined_results'
    /\ pages' = pages - 1
    /\ pc' = IF pages' = 0 THEN "finish" ELSE "tesseract"
    /\ UNCHANGED <<engine_out, tesseract_results, easyocr_results,
                   paddleocr_results, fields, confidence_scores, reported>>
    /\ UNCHANGED <<overlapVars, jobVars>>

\* fields, confidence_scores, and the ExtractionResult that is returned.
Finish ==
    /\ pc = "finish"
    /\ fields' = DetectFormFields(all_text_blocks)
    /\ confidence_scores' = CalculateConfidenceScores(all_text_blocks, fields')
    /\ pc' = "done"
    /\ UNCHANGED <<pages, engine_out, tesseract_results, easyocr_results,
                   paddleocr_results, combined_results, all_text_blocks, reported>>
    /\ UNCHANGED <<overlapVars, jobVars>>

Next ==
    \/ LoadDocument
    \/ LoadDocumentRaises
    \/ RunTesseract
    \/ RunEasyOCR
    \/ RunPaddleOCR
    \/ CombinePage
    \/ Finish

Spec == Init /\ [][Next]_vars

\* The ExtractionResult process_document returns.
Returns == pc = "done"

AllEngines == {"tesseract", "easyocr", "paddleocr"}

\* What an adapter returns for an outcome, had a raising engine returned
\* no detection instead.
C8_AsIfNothing(engine, out) ==
    IF engine = "tesseract"
    THEN TesseractProcessImage(IF out.raised THEN Returned(<<>>) ELSE out).results
    ELSE IF engine = "easyocr"
    THEN EasyOCRProcessImage(IF out.raised THEN Returned(<<>>) ELSE out).results
    ELSE PaddleOCRProcessImage(IF out.raised THEN Returned(PyNone) ELSE out).results

\* C8: no error of an engine leaves process_image (the run is aborted only
\* by the page source); an adapter whose engine raised returns the empty
\* sequence; the page is combined as if that engine had detected nothing,
\* and the result is classified and scored.
C8_FailureIsolated ==
    /\ pc = "raised" => DOMAIN engine_out = {}
    /\ (pc \in {"easyocr", "paddleocr", "combine_page"} /\ engine_out.tesseract.raised)
          => tesseract_results = <<>>
    /\ (pc \in {"paddleocr", "combine_page"} /\ engine_out.easyocr.raised)
          => easyocr_results = <<>>
    /\ (pc = "combine_page" /\ engine_out.paddleocr.raised)
          => paddleocr_results = <<>>
    /\ (pc \in {"tesseract", "finish", "done"} /\ DOMAIN engine_out = AllEngines)
          => /\ combined_results =
                   CombineOcrResults(C8_AsIfNothing("tesseract", engine_out.tesseract),
                                     C8_AsIfNothing("easyocr", engine_out.easyocr),
                                     C8_AsIfNothing("paddleocr", engine_out.paddleocr))
             /\ Len(all_text_blocks) >= Len(combined_results)
             /\ SubSeq(all_text_blocks,
                       Len(all_text_blocks) - Len(combined_results) + 1,
                       Len(all_text_blocks)) = combined_results
    /\ Returns => /\ fields = DetectFormFields(all_text_blocks)
                  /\ "overall" \in DOMAIN confidence_scores

\* Tesseract and PaddleOCR raised on the last page, EasyOCR did not, and
\* its region is in the result, classified.
C8_Witness ==
    /\ Returns
    /\ DOMAIN engine_out = AllEngines
    /\ engine_out.tesseract.raised
    /\ engine_out.paddleocr.raised
    /\ ~engine_out.easyocr.raised
    /\ Len(combined_results) = 1
    /\ combined_results[1].engine = EASYOCR
    /\ fields # <<>>

\* The regions the adapters have returned and the regions of text_blocks.
RegionsInPlay ==
    Range(tesseract_results) \cup Range(easyocr_results)
        \cup Range(paddleocr_results) \cup Range(all_text_blocks)

\* C9: no region an adapter returns, and no region of text_blocks, has a
\* text that is empty after trimming.
C9_NoBlankText ==
    \A r \in RegionsInPlay : StrStrip(r.text) # <<>>

\* C10: every region an adapter returns, every region of text_blocks and
\* every Field has a confidence in [0.0, 1.0].
C10_ConfidenceInRange ==
    /\ \A r \in RegionsInPlay : r.confidence >= 0 /\ r.confidence <= Scale
    /\ \A k \in 1..Len(fields) :
          fields[k].confidence >= 0 /\ fields[k].confidence <= Scale

(***************************************************************************)
(* SpecOverlap: _boxes_overlap on every ordered pair of boxes of a small   *)
(* grid, called with the arguments in both orders.                         *)
(***************************************************************************)
OverlapBoxes ==
    { <<x, y, w, h>> : x \in 0..MaxOrigin, y \in 0..MaxOrigin,
                       w \in 0..MaxSide, h \in 0..MaxSide }

InitOverlap ==
    /\ pc = "overlap"
    /\ overlap_box1 \in OverlapBoxes
    /\ overlap_box2 \in OverlapBoxes
    /\ overlap = <<>>
    /\ OcrIdle
    /\ JobsIdle

BoxesOverlapBothWays ==
    /\ pc = "overlap"
    /\ overlap' = [ab       |-> BoxesOverlap(overlap_box1, overlap_box2),
                   ba       |-> BoxesOverlap(overlap_box2, overlap_box1),
                   ratio_ab |-> OverlapRatio(overlap_box1, overlap_box2),
                   ratio_ba |-> OverlapRatio(overlap_box2, overlap_box1)]
    /\ pc' = "overlapped"
    /\ UNCHANGED <<overlap_box1, overlap_box2, ocrVars, jobVars>>

NextOverlap == BoxesOverlapBothWays

SpecOverlap == InitOverlap /\ [][NextOverlap]_vars

\* C11: _boxes_overlap(A, B) equals _boxes_overlap(B, A), and the ratio
\* computed for (A, B) equals the ratio computed for (B, A).
C11_Symmetric ==
    pc = "overlapped" =>
        /\ overlap.ab = overlap.ba
        /\ overlap.ratio_ab.num * overlap.ratio_ba.den
              = overlap.ratio_ba.num * overlap.ratio_ab.den

\* Two different boxes that overlap, seen the same from both sides.
C11_Witness ==
    /\ pc = "overlapped"
    /\ overlap_box1 # overlap_box2
    /\ overlap_box1[3] * overlap_box1[4] # overlap_box2[3] * overlap_box2[4]
    /\ overlap.ab
    /\ overlap.ba

\* The area two rectangles share, from the geometry.
C12_Shared(a, b) ==
    LET w == Min2(a[1] + a[3], b[1] + b[3]) - Max2(a[1], b[1])
        h == Min2(a[2] + a[4], b[2] + b[4]) - Max2(a[2], b[2])
    IN  IF w > 0 /\ h > 0 THEN w * h ELSE 0

\* The rectangles do not intersect: one lies beside, above or below the
\* other, touching it at most.
C12_Apart(a, b) ==
    \/ a[1] + a[3] <= b[1]
    \/ b[1] + b[3] <= a[1]
    \/ a[2] + a[4] <= b[2]
    \/ b[2] + b[4] <= a[2]

C13_ZeroedResult ==
    /\ all_text_blocks = <<>>
    /\ fields = <<>>
    /\ DOMAIN confidence_scores = {"overall", "average_per_block", "min", "max"}
    /\ \A key \in DOMAIN confidence_scores : confidence_scores[key].num = 0

\* C13 (under Spec): with an empty page sequence process_document does not
\* raise and returns the zeroed result; and it returns the zeroed result
\* when every adapter returned nothing on every page: no block is collected
\* before the first page, a page on which the three adapters returned
\* nothing adds none, only combining a page changes the collection, and a
\* call that returns with no block collected returns the zeroed result.
C13_EmptyIsZeroed ==
    /\ [](pc = "load" => all_text_blocks = <<>>)
    /\ [][(pc = "load" /\ pages' = 0 /\ pc' # "raised") => pc' = "finish"]_vars
    /\ [][pc = "finish" => pc' = "done"]_vars
    /\ [][pc # "combine_page" => all_text_blocks' = all_text_blocks]_vars
    /\ [][( /\ pc = "combine_page"
            /\ tesseract_results = <<>>
            /\ easyocr_results = <<>>
            /\ paddleocr_results = <<>> )
          => all_text_blocks' = all_text_blocks]_vars
    /\ []((Returns /\ DOMAIN engine_out = {}) => C13_ZeroedResult)
    /\ []((Returns /\ all_text_blocks = <<>>) => C13_ZeroedResult)

\* process_document returned for a document with no page.
C13_Witness ==
    /\ Returns
    /\ pages = 0
    /\ DOMAIN engine_out = {}
    /\ C13_ZeroedResult

\* The sum of the cluster sizes.
RECURSIVE C15_SizeSum(_, _)
C15_SizeSum(clusters, k) ==
    IF k > Len(clusters) THEN 0
    ELSE Len(clusters[k]) + C15_SizeSum(clusters, k + 1)

\* The (cluster, position) pairs at which the clusters hold the input
\* index m.
C15_Holders(clusters, m) ==
    { kq \in UNION { {k} \X (1..Len(clusters[k])) : k \in 1..Len(clusters) } :
        clusters[kq[1]][kq[2]] = m }

MAX_FILE_SIZE == 52428800

JobIds == 1..MaxJobs

SuffixPdf == <<".", "p", "d", "f">>
SuffixPNG == <<".", "P", "N", "G">>
SuffixExe == <<".", "e", "x", "e">>
SuffixNone == <<>>
FileSuffixes == {SuffixPdf, SuffixPNG, SuffixExe, SuffixNone}

\* allowed_extensions
AllowedExtensions ==
    { <<".", "p", "d", "f">>, <<".", "j", "p", "g">>, <<".", "j", "p", "e", "g">>,
      <<".", "p", "n", "g">>, <<".", "t", "i", "f", "f">>, <<".", "b", "m", "p">> }

\* len(file_content) of the files a client may send.
FileSizes == {0, MAX_FILE_SIZE, MAX_FILE_SIZE + 1}

\* str(uuid.uuid4()): an identifier no job has yet.  No handler looks into
\* an identifier, so which unused one it is makes no difference: the least.
\* A variant that may return an identifier again.
Uuid4Any(used) == JobIds

Uuid4(used) ==
    { id \in JobIds \ used : \A other \in JobIds \ used : id <= other }

\* The record upload_document stores (file name, path and creation time
\* left out; the path is determined by file_id).
NewJob(job_id, file_id) ==
    [id |-> job_id, file_id |-> file_id, status |-> "pending", progress |-> 0,
     result |-> PyNone, error |-> PyNone]

\* The stages of process_uploaded_document that can raise, in order: the
\* five constructors, preprocess_document, MultiOCREngine.process_image and
\* the conversion loop, detect_fields (with the ExtractionResult
\* constructor), update_confidence_scores, create_structured_output.
Stages == <<"init", "preprocess_document", "process_image", "detect_fields",
            "update_confidence_scores", "create_structured_output">>

\* processing_jobs[job_id]["progress"] = ... written after each stage but
\* the last.
ProgressAfter == <<20, 40, 60, 80, 90>>

\* The writes of the except branch.  A variant that leaves the progress.
ExceptWritesKeepProgress(e) ==
    << <<"status", "failed">>, <<"error", [str |-> e]>> >>

\* A variant that does not write the status.
ExceptWritesKeepStatus(e) ==
    << <<"error", [str |-> e]>>, <<"progress", 100>> >>

ExceptWrites(e) ==
    << <<"status", "failed">>, <<"error", [str |-> e]>>, <<"progress", 100>> >>

\* The writes of the try block when stage `raises` raises (0: none does).
TryWrites(raises, processed_doc) ==
    LET passed == IF raises = 0 THEN Len(ProgressAfter)
                  ELSE Min2(raises - 1, Len(ProgressAfter))
    IN  << <<"status", "processing">>, <<"progress", 10>> >>
        \o [k \in 1..passed |-> <<"progress", ProgressAfter[k]>>]
        \o ( IF raises = 0
             THEN << <<"result", processed_doc>>, <<"status", "completed">>,
                     <<"progress", 100>> >>
             ELSE <<>> )

\* process_uploaded_document as the sequence of its writes to
\* processing_jobs[job_id]; str(e) is the name of the stage that raised.
ProcessUploadedDocument(raises, processed_doc) ==
    TryWrites(raises, processed_doc)
    \o (IF raises = 0 THEN <<>> ELSE ExceptWrites(Stages[raises]))

\* The record after the first k writes.
RECURSIVE After(_, _, _)
After(job, writes, k) ==
    IF k = 0 THEN job
    ELSE [After(job, writes, k - 1) EXCEPT ![writes[k][1]] = writes[k][2]]

LogEntry(task, job) == [task |-> task, status |-> job.status, progress |-> job.progress]

\* What a request answers with: the endpoint and the HTTP status code.
Reply(op, code) == [op |-> op, code |-> code]

InitJobs ==
    /\ pc = "serve"
    /\ processing_jobs = <<>>
    /\ background_tasks = <<>>
    /\ task_log = <<>>
    /\ uploads = 0
    /\ response = <<>>
    /\ OcrIdle
    /\ OverlapIdle

\* upload_document up to `await file.read()`: the extension test.
UploadBegin ==
    /\ pc = "serve"
    /\ \E suffix \in FileSuffixes :
         IF StrLower(suffix) \notin AllowedExtensions
         THEN /\ response' = Reply("upload", 400)
              /\ UNCHANGED uploads
         ELSE /\ uploads < MaxInFlight
              /\ uploads' = uploads + 1
              /\ UNCHANGED response
    /\ UNCHANGED <<pc, processing_jobs, background_tasks, task_log, ocrVars, overlapVars>>

\* upload_document from the size test on: the record and the task.
UploadFinish ==
    /\ pc = "serve"
    /\ uploads > 0
    /\ uploads' = uploads - 1
    /\ \E size \in FileSizes :
         IF size > MAX_FILE_SIZE
         THEN /\ response' = Reply("upload", 400)
              /\ UNCHANGED <<processing_jobs, background_tasks, task_log>>
         ELSE \E job_id \in Uuid4(DOMAIN processing_jobs) :
                LET file_id == Len(background_tasks) + 1 IN
                /\ processing_jobs' =
                      [j \in DOMAIN processing_jobs \cup {job_id} |->
                          IF j = job_id THEN NewJob(job_id, file_id)
                          ELSE processing_jobs[j]]
                /\ task_log' =
                      [j \in DOMAIN task_log \cup {job_id} |->
                          (IF j \in DOMAIN task_log THEN task_log[j] ELSE <<>>)
                          \o (IF j = job_id
                              THEN <<LogEntry(0, NewJob(job_id, file_id))>>
                              ELSE <<>>)]
                /\ background_tasks' =
                      Append(background_tasks,
                             [job_id |-> job_id, file_path |-> file_id,
                              state |-> "scheduled"])
                /\ response' = Reply("upload", 200)
    /\ UNCHANGED <<pc, ocrVars, overlapVars>>

\* The event loop runs the scheduled task t: process_uploaded_document from
\* its first statement to its last.
RunTask(t) ==
    /\ pc = "serve"
    /\ t \in DOMAIN background_tasks
    /\ background_tasks[t].state = "scheduled"
    /\ \E raises \in 0..Len(Stages) :
         LET job_id == background_tasks[t].job_id
             job    == processing_jobs[job_id]
             writes == ProcessUploadedDocument(raises, [document_id |-> job.file_id])
         IN  /\ processing_jobs' =
                   [processing_jobs EXCEPT ![job_id] = After(job, writes, Len(writes))]
             /\ task_log' =
                   [task_log EXCEPT ![job_id] =
                       @ \o [k \in 1..Len(writes) |-> LogEntry(t, After(job, writes, k))]]
    /\ background_tasks' = [background_tasks EXCEPT ![t].state = "done"]
    /\ UNCHANGED <<pc, uploads, response, ocrVars, overlapVars>>

\* get_document
GetDocument ==
    /\ pc = "serve"
    /\ \E job_id \in JobIds :
         response' = IF job_id \notin DOMAIN processing_jobs
                     THEN Reply("get_document", 404)
                     ELSE Reply("get_document", 200)
    /\ UNCHANGED <<pc, processing_jobs, background_tasks, task_log, uploads,
                   ocrVars, overlapVars>>

\* get_document_processing_status
GetDocumentProcessingStatus ==
    /\ pc = "serve"
    /\ \E job_id \in JobIds :
         response' = IF job_id \notin DOMAIN processing_jobs
                     THEN Reply("status", 404)
                     ELSE Reply("status", 200)
    /\ UNCHANGED <<pc, processing_jobs, background_tasks, task_log, uploads,
                   ocrVars, overlapVars>>

\* list_documents
ListDocuments ==
    /\ pc = "serve"
    /\ response' = Reply("list", 200)
    /\ UNCHANGED <<pc, processing_jobs, background_tasks, task_log, uploads,
                   ocrVars, overlapVars>>

\* api/export.py, export_document: it reads the registry and writes a
\* file.  The status codes it can answer with for the job it is asked about:
\* 400 also for an unsupported format, 500 when writing the file raises.
ExportCodes(job_id) ==
    IF job_id \notin DOMAIN processing_jobs THEN {404}
    ELSE IF processing_jobs[job_id].status # "completed" THEN {400}
    ELSE IF processing_jobs[job_id].result = PyNone THEN {400}
    ELSE {400, 500, 200}

ExportDocument ==
    /\ pc = "serve"
    /\ \E job_id \in JobIds :
         \E code \in ExportCodes(job_id) :
            response' = Reply("export", code)
    /\ UNCHANGED <<pc, processing_jobs, background_tasks, task_log, uploads,
                   ocrVars, overlapVars>>

NextJobs ==
    \/ UploadBegin
    \/ UploadFinish
    \/ \E t \in 1..MaxJobs : RunTask(t)
    \/ GetDocument
    \/ GetDocumentProcessingStatus
    \/ ListDocuments
    \/ ExportDocument

SpecJobs == InitJobs /\ [][NextJobs]_vars

\* The same, with every scheduled task run: Starlette awaits the tasks it
\* was given once the response is sent.
SpecJobsFair == SpecJobs /\ \A t \in 1..MaxJobs : WF_vars(RunTask(t))

\* The scheduled tasks whose job is job_id.
C14_TasksOf(job_id) ==
    { t \in DOMAIN background_tasks : background_tasks[t].job_id = job_id }

\* The entries of a job's log that a background task wrote.
C14_TaskWrites(job_id) ==
    { k \in 1..Len(task_log[job_id]) : task_log[job_id][k].task # 0 }

\* C14 (under SpecJobs): whatever the interleaving of the requests, every
\* job has exactly one background task, the one its upload scheduled (same
\* job id, same file); only that task writes the job's record; and the
\* pipeline starts at most once for the job (one write of "processing").
C14_OneExecutionPerJob ==
    /\ \A t \in DOMAIN background_tasks :
          background_tasks[t].job_id \in DOMAIN processing_jobs
    /\ \A job_id \in DOMAIN processing_jobs :
          /\ Cardinality(C14_TasksOf(job_id)) = 1
          /\ \A t \in C14_TasksOf(job_id) :
                /\ background_tasks[t].file_path = processing_jobs[job_id].file_id
                /\ (background_tasks[t].state = "done") = (C14_TaskWrites(job_id) # {})
          /\ \A k \in C14_TaskWrites(job_id) :
                task_log[job_id][k].task \in C14_TasksOf(job_id)
          /\ Cardinality({ k \in C14_TaskWrites(job_id) :
                             /\ task_log[job_id][k].status = "processing"
                             /\ task_log[job_id][k - 1].status = "pending" }) <= 1
          /\ task_log[job_id][1].task = 0
          /\ \A k \in 2..Len(task_log[job_id]) : task_log[job_id][k].task # 0

\* Two jobs, both pipelines run, one to the end and one to a stage that
\* raised, and a status request answered last.
C14_Witness ==
    /\ DOMAIN processing_jobs = {1, 2}
    /\ Len(background_tasks) = 2
    /\ background_tasks[1].state = "done"
    /\ background_tasks[2].state = "done"
    /\ processing_jobs[1].status = "completed"
    /\ processing_jobs[2].status = "failed"
    /\ DOMAIN response # {}
    /\ response.op = "status"
    /\ response.code = 200

Terminal(status) == status \in {"completed", "failed"}

\* One write may take the status from `from` to `to`.
C16_Step(from, to) ==
    \/ from = to
    \/ from = "pending" /\ to = "processing"
    \/ from = "processing" /\ to \in {"completed", "failed"}

\* C16 (under SpecJobs): in every state of the registry a request can find
\* (process_uploaded_document never awaits, so none finds the record between
\* two of its writes): the progress is 100 exactly when the status is
\* terminal, a failed job has an error and no result, a completed job has no
\* error; in the order of the writes the status goes pending -> processing
\* -> completed or failed and the progress never decreases; and a record
\* with a terminal status never changes again.
C16_Lifecycle ==
    /\ [](\A job_id \in DOMAIN processing_jobs :
            LET job == processing_jobs[job_id]
                log == task_log[job_id]
            IN  /\ job.status \in {"pending", "processing", "completed", "failed"}
                /\ (job.progress = 100) = Terminal(job.status)
                /\ job.status = "failed" => (job.error # PyNone /\ job.result = PyNone)
                /\ job.status = "completed" => job.error = PyNone
                /\ log[1].status = "pending"
                /\ log[Len(log)].status = job.status
                /\ log[Len(log)].progress = job.progress
                /\ \A k \in 1..(Len(log) - 1) :
                      /\ C16_Step(log[k].status, log[k + 1].status)
                      /\ log[k].progress <= log[k + 1].progress)
    /\ [][\A job_id \in DOMAIN processing_jobs :
            /\ job_id \in DOMAIN processing_jobs'
            /\ processing_jobs'[job_id].progress >= processing_jobs[job_id].progress
            /\ Terminal(processing_jobs[job_id].status)
                  => processing_jobs'[job_id] = processing_jobs[job_id]]_vars

\* A completed job and a failed one, the failed one stopped at stage 3, and
\* a request served after both were terminal.
C16_Witness ==
    /\ DOMAIN processing_jobs = {1, 2}
    /\ processing_jobs[1].status = "completed"
    /\ processing_jobs[1].result # PyNone
    /\ processing_jobs[2].status = "failed"
    /\ processing_jobs[2].error = [str |-> "process_image"]
    /\ Len(task_log[2]) = 8
    /\ DOMAIN response # {}
    /\ response.op = "export"
    /\ response.code = 200

\* C17 (under SpecJobsFair, where a scheduled task is run): every job in
\* the registry eventually has a terminal status and progress 100, and a
\* run of the task, whichever stage raises or none, leaves the job so.
C17_EventuallyTerminal ==
    /\ \A job_id \in JobIds :
          (job_id \in DOMAIN processing_jobs)
             ~> ( /\ job_id \in DOMAIN processing_jobs
                  /\ Terminal(processing_jobs[job_id].status)
                  /\ processing_jobs[job_id].progress = 100 )
    /\ [][\A t \in DOMAIN background_tasks :
            ( /\ background_tasks[t].state = "scheduled"
              /\ t \in DOMAIN background_tasks'
              /\ background_tasks'[t].state = "done" )
            => /\ Terminal(processing_jobs'[background_tasks[t].job_id].status)
               /\ processing_jobs'[background_tasks[t].job_id].progress = 100]_vars

\* Both jobs terminal, one after a stage raised (the last stage), one after
\* none did.
C17_Witness ==
    /\ DOMAIN processing_jobs = {1, 2}
    /\ \A t \in DOMAIN background_tasks : background_tasks[t].state = "done"
    /\ processing_jobs[2].status = "completed"
    /\ processing_jobs[2].progress = 100
    /\ processing_jobs[1].status = "failed"
    /\ processing_jobs[1].progress = 100
    /\ processing_jobs[1].error = [str |-> "create_structured_output"]

====
